---- MODULE Spec2Model ----
(***************************************************************************)
(* A model of the JSON5 value decoder of src/src/de.rs: the Deserializer   *)
(* Core (Json5Deserializer, deserialize_any and its forwarded entry        *)
(* points), the Scalar Decoders (parse_bool, parse_string, parse_number,   *)
(* parse_hex) and the Sequence Accessor (Access::next_element_seed).       *)
(*                                                                         *)
(* A pest Pair is a record [kind, text, elems]: its rule, its source text  *)
(* as a sequence of one-character strings, and its inner pairs.  A panic   *)
(* (unwrap on None/Err, unreachable!) is the outcome "fault": it unwinds   *)
(* the whole decode, so nothing runs after it.                             *)
(***************************************************************************)
EXTENDS Integers, Sequences, FiniteSets, TLC

VARIABLES
    tree,      \* the root Pair the grammar produced for this decode call
    build,     \* whether the toolchain's f64::from_str accepts the word "Infinity"
    api,       \* "from_str" (de.rs:32) or "core" (a caller driving a pub Json5Deserializer)
    pc,        \* "seed": a seed/caller holds core `cur`; "visitor": a visit_seq runs; "done"
    cur,       \* the Deserializer Core in hand: [path, slot, takes]
    stack,     \* the active visit_seq calls, outermost first: one Access each
    log,       \* paths of the nodes extracted by deserialize_any, in order
    outcome,   \* [tag, why]: "running", "value", "error" or "fault"
    lazy,      \* some visitor stopped before its Access was exhausted, or a seed ignored its core
    result,    \* SpecScalar: what deserialize_any did with the scalar node
    entA, entB, outA, outB   \* SpecShape: two entry points on two cores over the same node

vars == <<tree, build, api, pc, cur, stack, log, outcome, lazy, result, entA, entB, outA, outB>>

(***************************************************************************)
(* Bounds of the model.                                                    *)
(***************************************************************************)
MaxNodes == 4          \* nodes of a parse tree in the walk
MaxExtraCalls == 2     \* calls to next_element_seed after the first None
MaxHexDigits == 9      \* hex digits of a number literal (9 digits exceed 32 bits)
MaxComponents == 2     \* components of a string literal

(***************************************************************************)
(* Texts.                                                                  *)
(***************************************************************************)
T_true == <<"t", "r", "u", "e">>
T_false == <<"f", "a", "l", "s", "e">>
T_Infinity == <<"I", "n", "f", "i", "n", "i", "t", "y">>
T_NaN == <<"N", "a", "N">>

Digits == {"0", "1", "2", "3", "4", "5", "6", "7", "8", "9"}

\* char::to_digit(16), as u32::from_str_radix applies it to each character.
HexDigitValue(c) ==
    CASE c = "0" -> 0 [] c = "1" -> 1 [] c = "2" -> 2 [] c = "3" -> 3
      [] c = "4" -> 4 [] c = "5" -> 5 [] c = "6" -> 6 [] c = "7" -> 7
      [] c = "8" -> 8 [] c = "9" -> 9
      [] c \in {"a", "A"} -> 10 [] c \in {"b", "B"} -> 11
      [] c \in {"c", "C"} -> 12 [] c \in {"d", "D"} -> 13
      [] c \in {"e", "E"} -> 14 [] c \in {"f", "F"} -> 15
      [] OTHER -> -1

\* The code point of a character of the model's alphabet (String::from(as_str)).
Ord(c) ==
    CASE c = "a" -> 97 [] c = "b" -> 98 [] c = "f" -> 102 [] c = "n" -> 110
      [] c = "r" -> 114 [] c = "t" -> 116 [] c = "v" -> 118 [] c = "'" -> 39
      [] c = "z" -> 122
      [] OTHER -> 63

Ok(v) == [tag |-> "ok", val |-> v]
Fault(why) == [tag |-> "fault", val |-> why]
Err(why) == [tag |-> "err", val |-> why]

\* Result::unwrap / Option::unwrap: the value, or a panic.
Unwrap(r, why) == IF r.tag = "ok" THEN r ELSE Fault(why)

(***************************************************************************)
(* u32::from_str_radix(s, 16).  A u32 is kept as two 16-bit limbs          *)
(* (value = hi * 2^16 + lo), so that 32-bit results stay exact.            *)
(***************************************************************************)
U32Bits == 32
Limb == 2 ^ (U32Bits \div 2)
U32(hi, lo) == [hi |-> hi, lo |-> lo]

\* checked_mul(16) then checked_add(d): None (overflow) past u32::MAX.
CheckedStep(acc, d) ==
    IF acc.hi * 16 + ((acc.lo * 16 + d) \div Limb) >= Limb THEN Err("PosOverflow")
    ELSE Ok(U32(acc.hi * 16 + ((acc.lo * 16 + d) \div Limb), (acc.lo * 16 + d) % Limb))

\* wrapping_mul(16) then wrapping_add(d): the value modulo 2^32.
WrappingStep(acc, d) ==
    Ok(U32((acc.hi * 16 + ((acc.lo * 16 + d) \div Limb)) % Limb, (acc.lo * 16 + d) % Limb))

WrappingDigit(prev, c) ==
    IF prev.tag # "ok" THEN prev
    ELSE IF HexDigitValue(c) < 0 THEN Err("InvalidDigit")
    ELSE WrappingStep(prev.val, HexDigitValue(c))

\* One turn of from_str_radix's digit loop: to_digit, then the checked step.
CheckedDigit(prev, c) ==
    IF prev.tag # "ok" THEN prev
    ELSE IF HexDigitValue(c) < 0 THEN Err("InvalidDigit")
    ELSE CheckedStep(prev.val, HexDigitValue(c))

WrappingRadix16(s, first) ==
    LET acc[i \in (first - 1)..Len(s)] ==
            IF i = first - 1 THEN Ok(U32(0, 0)) ELSE WrappingDigit(acc[i - 1], s[i])
    IN  acc[Len(s)]

\* The digit loop from character `first` on: acc[i] is the result after s[i].
CheckedRadix16(s, first) ==
    LET acc[i \in (first - 1)..Len(s)] ==
            IF i = first - 1 THEN Ok(U32(0, 0)) ELSE CheckedDigit(acc[i - 1], s[i])
    IN  acc[Len(s)]

\* A from_str_radix that truncates to 32 bits instead of reporting overflow.
FromStrRadix16Wrapping(s) ==
    IF Len(s) = 0 THEN Err("Empty") ELSE WrappingRadix16(s, 1)

\* u32::from_str_radix(s, 16): Empty, InvalidDigit, PosOverflow, or the value.
FromStrRadix16(s) ==
    IF Len(s) = 0 THEN Err("Empty")
    ELSE IF s[1] = "+" /\ Len(s) > 1 THEN CheckedRadix16(s, 2)
    ELSE CheckedRadix16(s, 1)

\* parse_hex, de.rs:114: from_str_radix(s, 16).unwrap()
parse_hex(s) == Unwrap(FromStrRadix16(s), "parse_hex unwrap")

\* is_hex_literal, de.rs:118: s.len() > 2 && (&s[..2] == "0x" || &s[..2] == "0X")
is_hex_literal(s) ==
    Len(s) > 2 /\ (SubSeq(s, 1, 2) = <<"0", "x">> \/ SubSeq(s, 1, 2) = <<"0", "X">>)

(***************************************************************************)
(* str::parse::<f64>(): [sign] digits* ['.' digits*] [(e|E) [sign] digits+]*)
(* with a digit before or after the point, or a special word.  The result  *)
(* keeps the literal's parts; rounding to the nearest double is not        *)
(* modelled.                                                               *)
(***************************************************************************)
\* The index after the run of decimal digits that starts at i.
EatDigits(s, i) ==
    CHOOSE j \in i..(Len(s) + 1) :
        /\ j = Len(s) + 1 \/ s[j] \notin Digits
        /\ \A k \in i..(j - 1) : s[k] \in Digits

HasAt(s, i, chars) == i <= Len(s) /\ s[i] \in chars

Lower(c) ==
    CASE c = "I" -> "i" [] c = "N" -> "n" [] c = "F" -> "f" [] c = "A" -> "a"
      [] c = "T" -> "t" [] c = "Y" -> "y" [] OTHER -> c

LowerText(s) == [i \in 1..Len(s) |-> Lower(s[i])]

\* The words f64::from_str takes after the sign: "inf" and "NaN" always; any case
\* of "inf", "infinity" and "nan" where the toolchain's parser accepts them.
F64Word(rest, neg, acceptsInfinityWord) ==
    IF rest = T_NaN \/ (acceptsInfinityWord /\ LowerText(rest) = <<"n", "a", "n">>)
    THEN Ok([k |-> "nan"])
    ELSE IF rest = <<"i", "n", "f">>
            \/ (acceptsInfinityWord
                /\ LowerText(rest) \in {<<"i", "n", "f">>, LowerText(T_Infinity)})
    THEN Ok([k |-> "inf", neg |-> neg])
    ELSE Err("Invalid")

\* b: after the sign; i1: after the integer digits; f0, i2: the fraction digits;
\* e0, i3: the exponent digits (e0 = i2 when there is no exponent).
F64Finish(s, b, i1, f0, i2, e0, i3, acceptsInfinityWord) ==
    IF /\ i1 > b \/ i2 > f0
       /\ e0 = i2 \/ i3 > e0
       /\ i3 = Len(s) + 1
    THEN Ok([k |-> "finite", neg |-> s[1] = "-",
             int |-> SubSeq(s, b, i1 - 1), frac |-> SubSeq(s, f0, i2 - 1),
             exp |-> IF e0 > i2 THEN SubSeq(s, i2 + 1, i3 - 1) ELSE <<>>])
    ELSE F64Word(SubSeq(s, b, Len(s)), s[1] = "-", acceptsInfinityWord)

F64ExpDigits(s, b, i1, f0, i2, e0, acceptsInfinityWord) ==
    F64Finish(s, b, i1, f0, i2, e0, IF e0 > i2 THEN EatDigits(s, e0) ELSE i2,
              acceptsInfinityWord)

F64Exp(s, b, i1, f0, i2, acceptsInfinityWord) ==
    F64ExpDigits(s, b, i1, f0, i2,
                 IF HasAt(s, i2, {"e", "E"})
                 THEN (IF HasAt(s, i2 + 1, {"+", "-"}) THEN i2 + 2 ELSE i2 + 1)
                 ELSE i2,
                 acceptsInfinityWord)

F64FracDigits(s, b, i1, f0, acceptsInfinityWord) ==
    F64Exp(s, b, i1, f0, EatDigits(s, f0), acceptsInfinityWord)

F64Frac(s, b, i1, acceptsInfinityWord) ==
    F64FracDigits(s, b, i1, IF HasAt(s, i1, {"."}) THEN i1 + 1 ELSE i1, acceptsInfinityWord)

F64Int(s, b, acceptsInfinityWord) == F64Frac(s, b, EatDigits(s, b), acceptsInfinityWord)

ParseF64(s, acceptsInfinityWord) ==
    IF Len(s) = 0 THEN Err("Empty")
    ELSE F64Int(s, IF s[1] \in {"+", "-"} THEN 2 ELSE 1, acceptsInfinityWord)

\* `as f64` of a u32: exact.
AsF64(r) == IF r.tag = "ok" THEN Ok([k |-> "u32", hi |-> r.val.hi, lo |-> r.val.lo]) ELSE r

\* parse_number, de.rs:104.
parse_number(s, acceptsInfinityWord) ==
    IF s = T_Infinity THEN Ok([k |-> "inf", neg |-> FALSE])
    ELSE IF s = <<"-">> \o T_Infinity THEN Ok([k |-> "inf", neg |-> TRUE])
    ELSE IF s = T_NaN \/ s = <<"-">> \o T_NaN THEN Ok([k |-> "nan"])
    ELSE IF is_hex_literal(s) THEN AsF64(parse_hex(SubSeq(s, 3, Len(s))))
    ELSE Unwrap(ParseF64(s, acceptsInfinityWord), "parse_number unwrap")

\* parse_bool, de.rs:68.
parse_bool(s) ==
    IF s = T_true THEN Ok(TRUE)
    ELSE IF s = T_false THEN Ok(FALSE)
    ELSE Fault("unreachable")

\* char::from_u32: None for a surrogate or a value past 0x10FFFF.
CharFromU32(v) ==
    IF v.hi > 16 \/ (v.hi = 0 /\ v.lo >= 55296 /\ v.lo <= 57343)
    THEN Err("not a scalar value")
    ELSE Ok(v.hi * Limb + v.lo)

\* char::from_u32(parse_hex(..)).unwrap().to_string(), de.rs:83-85.
CharToString(c) == IF c.tag = "ok" THEN Ok(<<c.val>>) ELSE Fault("char::from_u32 unwrap")
EscapedChar(h) == IF h.tag = "ok" THEN CharToString(CharFromU32(h.val)) ELSE h

\* parse_char_escape_sequence, de.rs:92.
parse_char_escape_sequence(s) ==
    CASE s = <<"b">> -> <<8>> [] s = <<"f">> -> <<12>> [] s = <<"n">> -> <<10>>
      [] s = <<"r">> -> <<13>> [] s = <<"t">> -> <<9>> [] s = <<"v">> -> <<11>>
      [] OTHER -> [i \in 1..Len(s) |-> Ord(s[i])]

\* One component of a string, the closure of de.rs:78-88.
StringComponent(c) ==
    CASE c.kind = "char_literal" -> Ok([i \in 1..Len(c.text) |-> Ord(c.text[i])])
      [] c.kind = "char_escape_sequence" -> Ok(parse_char_escape_sequence(c.text))
      [] c.kind = "nul_escape_sequence" -> Ok(<<0>>)
      [] c.kind \in {"hex_escape_sequence", "unicode_escape_sequence"} ->
            EscapedChar(parse_hex(c.text))
      [] OTHER -> Fault("unreachable")

\* collect(), de.rs:89: the next component appended; a panic in the map unwinds.
AppendPart(acc, r) ==
    IF acc.tag # "ok" THEN acc
    ELSE IF r.tag = "ok" THEN Ok(acc.val \o r.val) ELSE r

\* parse_string, de.rs:76.
parse_string(pair) ==
    LET acc[i \in 0..Len(pair.elems)] ==
            IF i = 0 THEN Ok(<<>>) ELSE AppendPart(acc[i - 1], StringComponent(pair.elems[i]))
    IN  acc[Len(pair.elems)]

(***************************************************************************)
(* The Deserializer Core.  The slot `pair: Option<Pair>` is <<>> (None) or *)
(* <<p>> (Some(p)).                                                        *)
(***************************************************************************)
\* Json5Deserializer::from_pair, de.rs:27.
from_pair(pair) == <<pair>>

\* Access::to, de.rs:127: the accessor over a node's inner pairs, cursor at the start.
AccessTo(pairs) == [pairs |-> pairs, pos |-> 0]

\* An Option::take that leaves the value in place (as_ref / clone).
TakeKeeps(slot) == [value |-> slot, left |-> slot]

\* Option::take: the value out, None left behind.
Take(slot) == [value |-> slot, left |-> <<>>]

Visit(method, arg) == Ok([m |-> method, v |-> arg])

\* visitor.visit_x(parse_x(pair)): a panic in the decoder comes before the call.
VisitWith(method, r) == IF r.tag = "ok" THEN Visit(method, r.val) ELSE r

\* The match of deserialize_any, de.rs:48-57: the visitor method called, or a panic.
Route(pair, acceptsInfinityWord) ==
    CASE pair.kind = "null" -> Visit("visit_unit", <<>>)
      [] pair.kind = "boolean" -> VisitWith("visit_bool", parse_bool(pair.text))
      [] pair.kind = "string" -> VisitWith("visit_string", parse_string(pair))
      [] pair.kind = "number" ->
            VisitWith("visit_f64", parse_number(pair.text, acceptsInfinityWord))
      [] pair.kind = "array" -> Visit("visit_seq", AccessTo(pair.elems))
      [] OTHER -> Fault("unreachable")

\* self.pair.take().unwrap(), de.rs:47, then the match.
Taken(t, acceptsInfinityWord) ==
    [slot |-> t.left,
     call |-> IF t.value = <<>> THEN Fault("unwrap on None")
              ELSE Route(t.value[1], acceptsInfinityWord)]

\* deserialize_any, de.rs:43.
deserialize_any(slot, acceptsInfinityWord) == Taken(Take(slot), acceptsInfinityWord)

\* The entry points of the Deserializer impl: deserialize_any and the 30 forwarded ones.
Entries ==
    {"any", "bool", "i8", "i16", "i32", "i64", "i128", "u8", "u16", "u32", "u64",
     "u128", "f32", "f64", "char", "str", "string", "bytes", "byte_buf", "option",
     "unit", "unit_struct", "newtype_struct", "seq", "tuple", "tuple_struct", "map",
     "struct", "enum", "identifier", "ignored_any"}

\* A shape-driven deserialize_option (visit_none for null, as other serde formats do).
ForwardShapeDriven(entry, slot, acceptsInfinityWord) ==
    IF entry = "option" /\ slot # <<>> /\ slot[1].kind = "null"
    THEN [slot |-> <<>>, call |-> Visit("visit_none", <<>>)]
    ELSE deserialize_any(slot, acceptsInfinityWord)

\* forward_to_deserialize_any!, de.rs:61: every entry point calls deserialize_any.
Forward(entry, slot, acceptsInfinityWord) ==
    deserialize_any(slot, acceptsInfinityWord)

(***************************************************************************)
(* The Sequence Accessor's cursor: pest's Pairs iterator.                  *)
(***************************************************************************)
Item(pairs, i, pos) == [item |-> <<pairs[i]>>, at |-> i, pos |-> pos]
NoItem(pos) == [item |-> <<>>, at |-> 0, pos |-> pos]

\* An iterator that starts over once it has run out.
PairsNextWraps(pairs, pos) ==
    IF pos < Len(pairs) THEN Item(pairs, pos + 1, pos + 1)
    ELSE IF Len(pairs) > 0 THEN Item(pairs, 1, 1)
    ELSE NoItem(pos)

\* An iterator that hands out the last pair first (next_back instead of next).
PairsNextBack(pairs, pos) ==
    IF pos < Len(pairs) THEN Item(pairs, Len(pairs) - pos, pos + 1) ELSE NoItem(pos)

\* An iterator that passes over every second pair.
PairsNextSkips(pairs, pos) ==
    IF pos + 1 < Len(pairs) THEN Item(pairs, pos + 2, pos + 2)
    ELSE IF pos < Len(pairs) THEN Item(pairs, pos + 1, pos + 1)
    ELSE NoItem(pos)

\* self.pairs.next(), de.rs:139: the pair at the cursor (and its index), or None for good.
PairsNext(pairs, pos) ==
    IF pos < Len(pairs) THEN Item(pairs, pos + 1, pos + 1) ELSE NoItem(pos)

(***************************************************************************)
(* Parse trees, as the grammar hands them over (Rule::text, de.rs:23).     *)
(***************************************************************************)
Pair(kind, text, elems) == [kind |-> kind, text |-> text, elems |-> elems]

NullNode == Pair("null", <<"n", "u", "l", "l">>, <<>>)
BoolNode(b) == Pair("boolean", IF b THEN T_true ELSE T_false, <<>>)
NumberNode(text) == Pair("number", text, <<>>)
StringNode(parts) == Pair("string", <<>>, parts)
ArrayNode(elems) == Pair("array", <<>>, elems)
ObjectNode == Pair("object", <<>>, <<>>)

\* The leaves of the trees the walk is checked on.
WalkLeaves == {NullNode, BoolNode(TRUE), ObjectNode}

\* Forests[m]: the sequences of trees of m nodes in all; a tree of k nodes is a
\* leaf (k = 1) or an array over a forest of k - 1 nodes.
Forests[m \in 0..MaxNodes] ==
    IF m = 0 THEN {<<>>}
    ELSE UNION {{<<t>> \o f :
                    t \in (IF k = 1 THEN WalkLeaves ELSE {})
                            \cup {ArrayNode(g) : g \in Forests[k - 1]},
                    f \in Forests[m - k]} : k \in 1..m}

\* The trees of at most MaxNodes nodes.
WalkTrees ==
    WalkLeaves \cup UNION {{ArrayNode(g) : g \in Forests[n - 1]} : n \in 1..MaxNodes}

\* The entry points the walk calls; the step does not depend on which (see Forward).
WalkEntries == {"any", "seq", "option"}

Last(s) == s[Len(s)]
Front(s) == SubSeq(s, 1, Len(s) - 1)

(***************************************************************************)
(* The walk: from_str, or a caller holding the core, drives the root core; *)
(* each visit_seq drives one Access.                                       *)
(***************************************************************************)
Running == [tag |-> "running", why |-> ""]
NoResult == [tag |-> "none", val |-> ""]
NoCall == [slot |-> <<>>, call |-> NoResult]
Core(path, pair) == [path |-> path, slot |-> from_pair(pair), takes |-> 0]
Frame(path, access) ==
    [path |-> path, pairs |-> access.pairs, pos |-> access.pos,
     results |-> <<>>, handed |-> <<>>]

Nones(results) == Cardinality({i \in 1..Len(results) : results[i] = "None"})

\* from_str, de.rs:32-38, up to the call of T::deserialize on the root core.
Init ==
    /\ tree \in WalkTrees
    /\ build = TRUE
    /\ api \in {"from_str", "core"}
    /\ pc = "seed"
    /\ cur = Core(<<>>, tree)
    /\ stack = <<>>
    /\ log = <<>>
    /\ outcome = Running
    /\ lazy = FALSE
    /\ result = NoResult
    /\ entA = "any" /\ entB = "any" /\ outA = NoCall /\ outB = NoCall

\* A conversion (a visitor's accept method, a seed, visit_seq) returns Ok or Err
\* to whoever called the core: the Access of the enclosing visit_seq (.map(Some),
\* de.rs:140-141) or, at the root, the caller of T::deserialize (de.rs:37).
Deliver(ok, rest, core) ==
    IF rest = <<>>
    THEN /\ stack' = <<>>
         /\ outcome' = [tag |-> IF ok THEN "value" ELSE "error", why |-> "visitor"]
         /\ pc' = IF api = "core" THEN "seed" ELSE "done"
         /\ cur' = core
    ELSE /\ stack' = [rest EXCEPT ![Len(rest)].results =
                                     Append(@, IF ok THEN "Some" ELSE "Err")]
         /\ pc' = "visitor"
         /\ cur' = core
         /\ UNCHANGED outcome

\* What follows deserialize_any's return d on the core in hand.
Dispatched(d, core, ok) ==
    IF d.call.tag = "fault"
    THEN /\ outcome' = [tag |-> "fault", why |-> d.call.val]
         /\ pc' = "done"
         /\ cur' = core
         /\ UNCHANGED <<stack, log>>
    ELSE /\ log' = Append(log, cur.path)
         /\ IF d.call.val.m = "visit_seq"
            THEN /\ stack' = Append(stack, Frame(cur.path, d.call.val.v))
                 /\ pc' = "visitor"
                 /\ cur' = core
                 /\ UNCHANGED outcome
            ELSE Deliver(ok, stack, core)

AfterCall(d, ok) ==
    Dispatched(d, [cur EXCEPT !.slot = d.slot, !.takes = @ + 1], ok)

\* An entry point is called on the core in hand (de.rs:43-65).  A seed owns its
\* core by value and can call it once; only a caller that holds the pub
\* Json5Deserializer itself can call the root core again.
Dispatch(entry, ok) ==
    /\ pc = "seed"
    /\ cur.takes = 0 \/ (api = "core" /\ cur.path = <<>>)
    /\ AfterCall(Forward(entry, cur.slot, build), ok)
    /\ UNCHANGED <<tree, build, api, lazy, result, entA, entB, outA, outB>>

\* A seed (or T::deserialize) returns without calling its core.
Skip(ok) ==
    /\ pc = "seed"
    /\ cur.takes = 0
    /\ outcome = Running
    /\ lazy' = TRUE
    /\ Deliver(ok, stack, cur)
    /\ UNCHANGED <<tree, build, api, log, result, entA, entB, outA, outB>>

\* What follows self.pairs.next() = n in the Access `top`.
Advanced(top, n) ==
    IF n.item # <<>>
    THEN /\ stack' = [stack EXCEPT ![Len(stack)].pos = n.pos,
                                   ![Len(stack)].handed =
                                       Append(@, [at |-> n.at, pair |-> n.item[1]])]
         /\ cur' = Core(top.path \o <<n.at>>, n.item[1])
         /\ pc' = "seed"
    ELSE /\ Nones(top.results) <= MaxExtraCalls
         /\ stack' = [stack EXCEPT ![Len(stack)].pos = n.pos,
                                   ![Len(stack)].results = Append(@, "None")]
         /\ UNCHANGED <<cur, pc>>

\* Access::next_element_seed, de.rs:135-145, up to seed.deserialize on the fresh core.
NextElement ==
    /\ pc = "visitor"
    /\ Advanced(Last(stack), PairsNext(Last(stack).pairs, Last(stack).pos))
    /\ UNCHANGED <<tree, build, api, log, outcome, lazy, result, entA, entB, outA, outB>>

\* The visitor's visit_seq returns (de.rs:53), however far it has read.
EndSeq(ok) ==
    /\ pc = "visitor"
    /\ lazy' = (lazy \/ Last(stack).pos < Len(Last(stack).pairs))
    /\ Deliver(ok, Front(stack),
               IF Len(stack) = 1 THEN [path |-> <<>>, slot |-> <<>>, takes |-> 1] ELSE cur)
    /\ UNCHANGED <<tree, build, api, log, result, entA, entB, outA, outB>>

Next ==
    \/ \E e \in WalkEntries, ok \in BOOLEAN : Dispatch(e, ok)
    \/ \E ok \in BOOLEAN : Skip(ok)
    \/ NextElement
    \/ \E ok \in BOOLEAN : EndSeq(ok)

Spec == Init /\ [][Next]_vars

(***************************************************************************)
(* SpecScalar: from_str on a document that is one scalar literal, over the *)
(* grammar's vocabulary of literals.                                       *)
(***************************************************************************)
Signs == {<<>>, <<"+">>, <<"-">>}
\* Hex digits: an optional leading 1, then digits 0 and F, MaxHexDigits in all
\* (1F, FFFFFFFF = u32::MAX, 100000000 = 2^32, 0FFFFFFFF, ...).
ZeroF(n) == UNION {[1..k -> {"0", "F"}] : k \in 0..n}
HexDigitTexts ==
    (ZeroF(MaxHexDigits) \ {<<>>}) \cup {<<"1">> \o d : d \in ZeroF(MaxHexDigits - 1)}
HexBodies == {<<"0", x>> \o d : x \in {"x", "X"}, d \in HexDigitTexts}

\* DecimalIntegerLiteral [. digits] [exponent] | . digits [exponent]
DecimalBodies ==
    {i \o f \o e : i \in {<<"0">>, <<"1">>, <<"1", "5">>},
                   f \in {<<>>, <<".">>, <<".", "5">>},
                   e \in {<<>>, <<"e", "1">>, <<"E", "+", "1">>, <<"e", "-", "1", "0">>}}
    \cup {<<".", "5">> \o e : e \in {<<>>, <<"e", "1">>, <<"E", "-", "1">>}}

\* number = sign? (hex | decimal | Infinity | NaN)
NumberTexts == {sg \o b : sg \in Signs, b \in HexBodies \cup DecimalBodies \cup {T_Infinity, T_NaN}}

\* Escapes around the surrogate range D800..DFFF, and the ends of \x and \u.
HexEscapeTexts == {<<"0", "0">>, <<"4", "1">>, <<"7", "F">>, <<"F", "F">>}
UnicodeEscapeTexts ==
    {<<"0", "0", "0", "0">>, <<"0", "0", "4", "1">>, <<"D", "7", "F", "F">>,
     <<"D", "8", "0", "0">>, <<"D", "B", "F", "F">>, <<"D", "F", "F", "F">>,
     <<"E", "0", "0", "0">>, <<"F", "F", "F", "F">>}
Component(kind, text) == Pair(kind, text, <<>>)
StringComponents ==
    {Component("char_literal", <<"a">>), Component("nul_escape_sequence", <<"0">>)}
    \cup {Component("char_escape_sequence", <<c>>) : c \in {"b", "f", "n", "r", "t", "v", "z", "'"}}
    \cup {Component("hex_escape_sequence", t) : t \in HexEscapeTexts}
    \cup {Component("unicode_escape_sequence", t) : t \in UnicodeEscapeTexts}
StringBodies == UNION {[1..k -> StringComponents] : k \in 0..MaxComponents}

ScalarNodes ==
    {NullNode, BoolNode(TRUE), BoolNode(FALSE)}
    \cup {NumberNode(t) : t \in NumberTexts}
    \cup {StringNode(b) : b \in StringBodies}

InitScalar ==
    /\ tree \in ScalarNodes
    /\ build \in BOOLEAN
    /\ api = "from_str"
    /\ pc = "seed"
    /\ cur = Core(<<>>, tree)
    /\ stack = <<>>
    /\ log = <<>>
    /\ outcome = Running
    /\ lazy = FALSE
    /\ result = NoResult
    /\ entA = "any" /\ entB = "any" /\ outA = NoCall /\ outB = NoCall

\* T::deserialize calls an entry point on the root core (de.rs:37); `result` keeps
\* the visitor call it made, or the panic.
DecodeScalar(entry, ok) ==
    /\ pc = "seed"
    /\ cur.takes = 0
    /\ result' = Forward(entry, cur.slot, build).call
    /\ AfterCall(Forward(entry, cur.slot, build), ok)
    /\ UNCHANGED <<tree, build, api, lazy, entA, entB, outA, outB>>

NextScalar == \E e \in WalkEntries, ok \in BOOLEAN : DecodeScalar(e, ok)

SpecScalar == InitScalar /\ [][NextScalar]_vars

(***************************************************************************)
(* SpecShape: the same document decoded twice, through two entry points,   *)
(* each on a core of its own.                                              *)
(***************************************************************************)
ShapeNodes ==
    WalkLeaves
    \cup {BoolNode(FALSE), ArrayNode(<<>>),
          ArrayNode(<<NullNode, ArrayNode(<<BoolNode(TRUE), ObjectNode>>)>>),
          NumberNode(<<"0", "x", "1", "F">>), NumberNode(<<"-", "0", "x", "1", "F">>),
          NumberNode(<<"1", ".", "5">>), NumberNode(<<"-">> \o T_NaN),
          StringNode(<<Component("char_literal", <<"a">>),
                       Component("char_escape_sequence", <<"n">>)>>),
          StringNode(<<Component("unicode_escape_sequence", <<"D", "8", "0", "0">>)>>),
          ArrayNode(<<NumberNode(<<"1">>)>>)}

InitShape ==
    /\ tree \in ShapeNodes
    /\ build = TRUE
    /\ api = "core"
    /\ pc = "shape"
    /\ cur = Core(<<>>, tree)
    /\ stack = <<>>
    /\ log = <<>>
    /\ outcome = Running
    /\ lazy = FALSE
    /\ result = NoResult
    /\ entA = "any" /\ entB = "any" /\ outA = NoCall /\ outB = NoCall

EnterPair(e1, e2) ==
    /\ pc = "shape"
    /\ entA' = e1
    /\ entB' = e2
    /\ outA' = Forward(e1, from_pair(tree), build)
    /\ outB' = Forward(e2, from_pair(tree), build)
    /\ pc' = "done"
    /\ UNCHANGED <<tree, build, api, cur, stack, log, outcome, lazy, result>>

NextShape == \E e1 \in Entries, e2 \in Entries : EnterPair(e1, e2)

SpecShape == InitShape /\ [][NextShape]_vars

(***************************************************************************)
(* Helpers of the properties.                                              *)
(***************************************************************************)
Frames == {stack[i] : i \in 1..Len(stack)}

NodeAtPath(t, path) ==
    LET n[i \in 0..Len(path)] == IF i = 0 THEN t ELSE n[i - 1].elems[path[i]]
    IN  n[Len(path)]

\* Every path of the tree t, the root's <<>> included.
AllPaths(t) ==
    LET P[d \in 0..MaxNodes] ==
            IF d = 0 THEN {<<>>}
            ELSE UNION {{Append(q, i) : i \in 1..Len(NodeAtPath(t, q).elems)} : q \in P[d - 1]}
    IN  UNION {P[d] : d \in 0..MaxNodes}

\* p comes before q in depth-first left-to-right order (a parent before its children).
PathLess(p, q) ==
    \/ Len(p) < Len(q) /\ SubSeq(q, 1, Len(p)) = p
    \/ \E i \in 1..Len(p) :
          /\ i <= Len(q)
          /\ SubSeq(p, 1, i - 1) = SubSeq(q, 1, i - 1)
          /\ p[i] < q[i]

InPreorder(l) == \A i, j \in 1..Len(l) : i < j => PathLess(l[i], l[j])
Complete(l, t) == {l[i] : i \in 1..Len(l)} = AllPaths(t)

SomesUpTo(results, i) == Cardinality({j \in 1..i : results[j] = "Some"})

\* The value of a text of at most four hex digits, by position.
HexValue(ds) ==
    LET v[i \in 0..Len(ds)] == IF i = 0 THEN 0 ELSE v[i - 1] * 16 + HexDigitValue(ds[i])
    IN  v[Len(ds)]

LastDigits(ds, n) == SubSeq(ds, IF Len(ds) > n THEN Len(ds) - n + 1 ELSE 1, Len(ds))
DigitsBefore(ds, n) == SubSeq(ds, 1, IF Len(ds) > n THEN Len(ds) - n ELSE 0)

\* The digits denote a value below 2^32: nothing but zeros before the last eight.
Fits32(ds) == \A i \in 1..Len(DigitsBefore(ds, 8)) : ds[i] = "0"
\* The value modulo 2^32 as the f64 the decoder hands to visit_f64.
Low32(ds) ==
    [k |-> "u32", hi |-> HexValue(DigitsBefore(LastDigits(ds, 8), 4)),
     lo |-> HexValue(LastDigits(ds, 4))]

HexPrefixed(t) == Len(t) > 2 /\ t[1] = "0" /\ t[2] \in {"x", "X"}
Unsigned(t) == IF Len(t) > 0 /\ t[1] \in {"+", "-"} THEN Tail(t) ELSE t
DecodedNumber == pc = "done" /\ tree.kind = "number"
DecodedString == pc = "done" /\ tree.kind = "string"

IsEscape(c) == c.kind \in {"hex_escape_sequence", "unicode_escape_sequence"}
Surrogate(cp) == cp >= 55296 /\ cp <= 57343
HasInvalidEscape(node) ==
    \E i \in 1..Len(node.elems) : IsEscape(node.elems[i]) /\ Surrogate(HexValue(node.elems[i].text))

(***************************************************************************)
(* C1, as stated: the results of the successive calls on an Access over N  *)
(* children are N times Some, then None.                                   *)
(***************************************************************************)
C1_SomesThenNone ==
    \A f \in Frames : \A i \in 1..Len(f.results) :
        f.results[i] = IF i <= Len(f.pairs) THEN "Some" ELSE "None"

(***************************************************************************)
(* C1, amended: each of the first N calls consumes one child and returns   *)
(* Some or the conversion's error; no call returns None before the N       *)
(* children are consumed and every call after that returns None.           *)
(***************************************************************************)
C1_ExhaustionIsFinal ==
    \A f \in Frames :
        /\ f.pos <= Len(f.pairs)
        /\ Len(f.results) <= Len(f.pairs) + MaxExtraCalls + 1
        /\ \A i \in 1..Len(f.results) :
              /\ (f.results[i] = "None") <=> (i > Len(f.pairs))
              /\ i <= Len(f.pairs) => f.results[i] \in {"Some", "Err"}
              /\ i <= Len(f.pairs) => f.pos >= i

C1_Witness ==
    \E f \in Frames :
        /\ Len(f.pairs) = 2
        /\ f.results = <<"Some", "Err", "None", "None", "None">>

(***************************************************************************)
(* C2, as stated: a dispatch that holds an Object node ends in the         *)
(* UnsupportedShape error value, not in a fault.                           *)
(***************************************************************************)
C2_ObjectIsUnsupportedShape ==
    (cur.takes >= 1 /\ NodeAtPath(tree, cur.path).kind = "object")
        => (outcome.tag = "error" /\ outcome.why = "UnsupportedShape")

(***************************************************************************)
(* C3, as stated: the k-th call that returns Some decoded the k-th child.  *)
(***************************************************************************)
C3_KthSomeIsKthChild ==
    \A f \in Frames : \A i \in 1..Len(f.results) :
        (i <= Len(f.handed) /\ f.results[i] = "Some")
            => f.handed[i].at = SomesUpTo(f.results, i)

(***************************************************************************)
(* C3, amended: the k-th call that finds a child remaining hands the k-th  *)
(* child to a fresh core holding only that child, whatever it returns; no  *)
(* child is handed out or dispatched twice, passed over, or out of order.  *)
(***************************************************************************)
C3_ChildrenInOrder ==
    /\ \A f \in Frames :
          /\ Len(f.handed) = f.pos
          /\ \A k \in 1..Len(f.handed) :
                f.handed[k].at = k /\ f.handed[k].pair = f.pairs[k]
          /\ \A i, j \in 1..Len(log) :
                (i < j /\ Len(log[i]) = Len(f.path) + 1 /\ Len(log[j]) = Len(f.path) + 1
                       /\ Front(log[i]) = f.path /\ Front(log[j]) = f.path)
                    => Last(log[i]) < Last(log[j])
    /\ (pc = "seed" /\ stack # <<>>) =>
          /\ cur.takes = 0
          /\ cur.path = Last(stack).path \o <<Last(stack).pos>>
          /\ cur.slot = <<Last(stack).pairs[Last(stack).pos]>>

C3_Witness ==
    \E f \in Frames :
        /\ Len(f.pairs) = 3
        /\ f.results = <<"Err", "Some", "Some">>
        /\ Len(f.handed) = 3
        /\ f.path \o <<3>> \in {log[i] : i \in 1..Len(log)}

(***************************************************************************)
(* C4: a core holds at most one node; once dispatched its slot is empty,   *)
(* no node is dispatched twice, and a second dispatch on the same core     *)
(* decodes nothing and ends in the fault.                                  *)
(***************************************************************************)
C4_ExtractedOnce ==
    /\ Len(cur.slot) <= 1
    /\ cur.takes >= 1 => cur.slot = <<>>
    /\ \A i, j \in 1..Len(log) : i # j => log[i] # log[j]
    /\ cur.takes >= 2 =>
          /\ outcome = [tag |-> "fault", why |-> "unwrap on None"]
          /\ Cardinality({i \in 1..Len(log) : log[i] = cur.path}) = 1

C4_Witness ==
    /\ cur.takes = 2
    /\ cur.path = <<>>
    /\ tree.kind = "array"
    /\ Len(log) >= 2
    /\ outcome.tag = "fault"

(***************************************************************************)
(* C5, as stated: a hex or unicode escape whose code point is not a scalar *)
(* value makes string decoding return an error value, not a fault; a valid *)
(* one yields the one character with that code point.                      *)
(***************************************************************************)
C5_InvalidEscapeIsError ==
    DecodedString =>
        IF HasInvalidEscape(tree) THEN result.tag = "err"
        ELSE /\ result.tag = "ok"
             /\ (Len(tree.elems) = 1 /\ IsEscape(tree.elems[1]))
                    => result.val = [m |-> "visit_string",
                                     v |-> <<HexValue(tree.elems[1].text)>>]

C8_PriorityOrder ==
    DecodedNumber =>
        IF tree.text = T_Infinity THEN result = Visit("visit_f64", [k |-> "inf", neg |-> FALSE])
        ELSE IF tree.text = <<"-">> \o T_Infinity
        THEN result = Visit("visit_f64", [k |-> "inf", neg |-> TRUE])
        ELSE IF tree.text \in {T_NaN, <<"-">> \o T_NaN}
        THEN result = Visit("visit_f64", [k |-> "nan"])
        ELSE IF HexPrefixed(tree.text)
        THEN /\ result.tag = "ok"
             /\ Fits32(SubSeq(tree.text, 3, Len(tree.text)))
                    => result.val.v = Low32(SubSeq(tree.text, 3, Len(tree.text)))
        ELSE result = VisitWith("visit_f64",
                                Unwrap(ParseF64(tree.text, build), "parse_number unwrap"))

(***************************************************************************)
(* C9, as stated: when from_str returns a value every node of the tree has *)
(* been dispatched exactly once, in depth-first left-to-right order.       *)
(***************************************************************************)
C9_WholeTreeConsumed ==
    (api = "from_str" /\ outcome.tag = "value")
        => (InPreorder(log) /\ Complete(log, tree))

(***************************************************************************)
(* C9, amended: nodes are dispatched at most once and in depth-first       *)
(* left-to-right order; the whole tree has been dispatched when the call   *)
(* returns a value provided every visitor read its accessor to the end and *)
(* every seed dispatched its core.                                         *)
(***************************************************************************)
C9_PreorderAndCompleteIfEager ==
    /\ InPreorder(log)
    /\ \A i \in 1..Len(log) : log[i] \in AllPaths(tree)
    /\ (outcome.tag = "value" /\ ~lazy) => Complete(log, tree)

C9_Witness ==
    /\ api = "from_str"
    /\ outcome.tag = "value"
    /\ ~lazy
    /\ Len(log) = 4
    /\ log[3] = <<1, 1>>
    /\ log[4] = <<2>>

(***************************************************************************)
(* C10, as stated: every number text of the vocabulary decodes to a float  *)
(* without a fault, and a signed hex literal is decoded from its hex       *)
(* digits.                                                                 *)
(***************************************************************************)
C10_NumberDecodingTotal ==
    DecodedNumber =>
        /\ result.tag = "ok"
        /\ (HexPrefixed(Unsigned(tree.text))
            /\ Fits32(SubSeq(Unsigned(tree.text), 3, Len(Unsigned(tree.text)))))
              => result.val.v.k = "u32"

====
